---- MODULE Spec2Model ----
(***************************************************************************)
(* Fixed-step ODE integrators of stronzos.ipynb: euler_method,             *)
(* heun_method, runge_kutta_method, midpoint_method, verlet_method_system, *)
(* euler_method_system and runge_kutta_method_system.                      *)
(*                                                                         *)
(* Numbers are exact rationals [num, den] in lowest terms (den > 0); the   *)
(* value NaN is [num |-> 0, den |-> 0] and absorbs every operation, as a   *)
(* float NaN does.  A state (y, v, a value returned by f) is a tuple of    *)
(* numbers: one component for a scalar, two for a numpy vector.            *)
(* One action is one iteration of a routine's for-loop, or its return.     *)
(***************************************************************************)
EXTENDS Integers, Sequences, FiniteSets, TLC

VARIABLES f, y0, v0, t0, h, n,
          t, y, v, t_values, y_values, v_values,
          iter, calls, status, result, error

inputs == <<f, y0, v0, t0, h, n>>
vars == <<f, y0, v0, t0, h, n, t, y, v, t_values, y_values, v_values,
          iter, calls, status, result, error>>

\* Largest step count n a caller passes.
MaxN == 2
\* Latest invocation of f (counted within one call) at which f may raise.
MaxFail == 5

----------------------------------------------------------------------------
\* Exact arithmetic

Abs(a) == IF a < 0 THEN -a ELSE a

RECURSIVE Gcd(_, _)
Gcd(a, b) == IF b = 0 THEN a ELSE Gcd(b, a % b)

NaN == [num |-> 0, den |-> 0]
IsNaN(r) == r.den = 0

\* a/b in lowest terms, b # 0
Rat(a, b) ==
    LET g == Gcd(Abs(a), Abs(b))
        s == IF b < 0 THEN -1 ELSE 1
    IN [num |-> (s * a) \div g, den |-> (s * b) \div g]

Num(k) == [num |-> k, den |-> 1]

\* a + b
RAdd(a, b) ==
    IF IsNaN(a) \/ IsNaN(b) THEN NaN
    ELSE LET g == Gcd(a.den, b.den)
             l == (a.den \div g) * b.den
         IN Rat(a.num * (l \div a.den) + b.num * (l \div b.den), l)

\* a * b
RMul(a, b) ==
    IF IsNaN(a) \/ IsNaN(b) THEN NaN
    ELSE LET g1 == Gcd(Abs(a.num), b.den)
             g2 == Gcd(Abs(b.num), a.den)
         IN Rat((a.num \div g1) * (b.num \div g2), (a.den \div g2) * (b.den \div g1))

\* a / k for a nonzero integer literal k
RDiv(a, k) == RMul(a, Rat(1, k))

\* element-wise a + b
VAdd(a, b) == [j \in DOMAIN a |-> RAdd(a[j], b[j])]
\* scalar r times every element of a
VScale(r, a) == [j \in DOMAIN a |-> RMul(r, a[j])]
\* every element of a divided by the integer literal k
VDiv(a, k) == [j \in DOMAIN a |-> RDiv(a[j], k)]

----------------------------------------------------------------------------
\* The callable f supplied by the caller

Methods == {"euler_method", "heun_method", "runge_kutta_method", "midpoint_method",
            "verlet_method_system", "euler_method_system", "runge_kutta_method_system"}

\* f(t, y) = g, f(t, y) = y, f(t, y) = t, f(t, y) = nan, a(t, y, v) = -v
FirstOrderKinds == {"const", "y", "t", "nan"}
SecondOrderKinds == FirstOrderKinds \cup {"neg_v"}

\* f.failAt = k > 0: the k-th invocation of f within a call raises; 0: f never raises
FSet(kinds) ==
    { [kind |-> k, g |-> c, failAt |-> a] :
        k \in kinds \ {"const"}, c \in {Num(0)}, a \in 0..MaxFail }
    \cup { [kind |-> "const", g |-> c, failAt |-> a] :
        c \in {Num(0), Num(-2)}, a \in 0..MaxFail }

\* The value f returns on the arguments args = <<t, y>> or <<t, y, v>>
Apply(args) ==
    LET tt == args[1]
        yy == args[2]
    IN CASE f.kind = "const" -> [j \in DOMAIN yy |-> f.g]
         [] f.kind = "y"     -> yy
         [] f.kind = "t"     -> [j \in DOMAIN yy |-> tt]
         [] f.kind = "nan"   -> [j \in DOMAIN yy |-> NaN]
         [] f.kind = "neg_v" -> VScale(Num(-1), args[3])

\* The exception the k-th invocation of f raises
FError(k) == [raised_by |-> "f", invocation |-> k]

None == "None"

----------------------------------------------------------------------------
\* The loop bodies.  Each *_body(tt, yy, vv) gives, for the loop variables
\* t = tt, y = yy, v = vv, the invocations of f in the order the body makes
\* them (args) and the values the body assigns when every invocation returns.

Half == Rat(1, 2)

\* t_next with the step taken forwards whatever the sign of h: t = t + abs(h)
t_next_abs(tt) == RAdd(tt, [num |-> Abs(h.num), den |-> h.den])

\* t = t + h
t_next(tt) == RAdd(tt, h)

\* euler_method_body without the accumulation: y = h * f(t, y)
euler_method_body_no_accumulate(tt, yy, vv) ==
    LET a1 == <<tt, yy>>
    IN [args |-> <<a1>>,
        y |-> VScale(h, Apply(a1)),
        v |-> vv]

\* y = y + h * f(t, y)
euler_method_body(tt, yy, vv) ==
    LET a1 == <<tt, yy>>
    IN [args |-> <<a1>>,
        y |-> VAdd(yy, VScale(h, Apply(a1))),
        v |-> vv]

\* heun_corrector averaging without the step size: y + (1 / 2) * (...)
heun_corrector_fixed_half(yy, k1, k2) == VAdd(yy, VScale(Half, VAdd(k1, k2)))

\* y + (h / 2) * (f(t, y) + f(t + h, y_predictor))
heun_corrector(yy, k1, k2) == VAdd(yy, VScale(RDiv(h, 2), VAdd(k1, k2)))

heun_method_body(tt, yy, vv) ==
    LET a1 == <<tt, yy>>
        y_predictor == VAdd(yy, VScale(h, Apply(a1)))
        a2 == <<tt, yy>>
        a3 == <<RAdd(tt, h), y_predictor>>
    IN [args |-> <<a1, a2, a3>>,
        y |-> heun_corrector(yy, Apply(a2), Apply(a3)),
        v |-> vv]

\* k_i = f(...), scaled by h where it is used
runge_kutta_method_body(tt, yy, vv) ==
    LET a1 == <<tt, yy>>
        k1 == Apply(a1)
        a2 == <<RAdd(tt, RDiv(h, 2)), VAdd(yy, VDiv(VScale(h, k1), 2))>>
        k2 == Apply(a2)
        a3 == <<RAdd(tt, RDiv(h, 2)), VAdd(yy, VDiv(VScale(h, k2), 2))>>
        k3 == Apply(a3)
        a4 == <<RAdd(tt, h), VAdd(yy, VScale(h, k3))>>
        k4 == Apply(a4)
        sum == VAdd(VAdd(VAdd(k1, VScale(Num(2), k2)), VScale(Num(2), k3)), k4)
    IN [args |-> <<a1, a2, a3, a4>>,
        y |-> VAdd(yy, VDiv(VScale(h, sum), 6)),
        v |-> vv]

midpoint_method_body(tt, yy, vv) ==
    LET a1 == <<tt, yy>>
        k1 == VScale(h, Apply(a1))
        a2 == <<RAdd(tt, RDiv(h, 2)), VAdd(yy, VDiv(k1, 2))>>
        k2 == VScale(h, Apply(a2))
    IN [args |-> <<a1, a2>>,
        y |-> VAdd(yy, k2),
        v |-> vv]

\* y_next = y + h * v + 0.5 * h**2 * f(t, y, v), with a = f(t, y, v)
verlet_y_next(yy, vv, a) ==
    VAdd(VAdd(yy, VScale(h, vv)), VScale(RMul(Half, RMul(h, h)), a))

\* verlet_a_next_args with the velocity advanced too: f(t + h, y_next, v + h * a)
verlet_a_next_args_new_velocity(tt, y_next, vv, a) ==
    <<RAdd(tt, h), y_next, VAdd(vv, VScale(h, a))>>

\* the arguments of a_next = f(t + h, y_next, v)
verlet_a_next_args(tt, y_next, vv, a) == <<RAdd(tt, h), y_next, vv>>

\* verlet_v_next without the factor 0.5: v + h * (f(t, y, v) + a_next)
verlet_v_next_no_half(vv, a, a_next) == VAdd(vv, VScale(h, VAdd(a, a_next)))

\* v_next = v + 0.5 * h * (f(t, y, v) + a_next), with a = f(t, y, v)
verlet_v_next(vv, a, a_next) == VAdd(vv, VScale(RMul(Half, h), VAdd(a, a_next)))

verlet_method_system_body(tt, yy, vv) ==
    LET a1 == <<tt, yy, vv>>
        y_next == verlet_y_next(yy, vv, Apply(a1))
        a2 == verlet_a_next_args(tt, y_next, vv, Apply(a1))
        a_next == Apply(a2)
        a3 == <<tt, yy, vv>>
    IN [args |-> <<a1, a2, a3>>,
        y |-> y_next,
        v |-> verlet_v_next(vv, Apply(a3), a_next)]

euler_method_system_body(tt, yy, vv) ==
    LET a1 == <<tt, yy>>
    IN [args |-> <<a1>>,
        y |-> VAdd(yy, VScale(h, Apply(a1))),
        v |-> vv]

\* rks_k4_args with the half step of k2 and k3: f(t + h, y + k3 / 2)
rks_k4_args_half(tt, yy, k3) == <<RAdd(tt, h), VAdd(yy, VDiv(k3, 2))>>

\* the arguments of k4 = h * f(t + h, y + k3)
rks_k4_args(tt, yy, k3) == <<RAdd(tt, h), VAdd(yy, k3)>>

\* k_i = h * f(...)
runge_kutta_method_system_body(tt, yy, vv) ==
    LET a1 == <<tt, yy>>
        k1 == VScale(h, Apply(a1))
        a2 == <<RAdd(tt, RDiv(h, 2)), VAdd(yy, VDiv(k1, 2))>>
        k2 == VScale(h, Apply(a2))
        a3 == <<RAdd(tt, RDiv(h, 2)), VAdd(yy, VDiv(k2, 2))>>
        k3 == VScale(h, Apply(a3))
        a4 == rks_k4_args(tt, yy, k3)
        k4 == VScale(h, Apply(a4))
        sum == VAdd(VAdd(VAdd(k1, VScale(Num(2), k2)), VScale(Num(2), k3)), k4)
    IN [args |-> <<a1, a2, a3, a4>>,
        y |-> VAdd(yy, VDiv(sum, 6)),
        v |-> vv]

----------------------------------------------------------------------------
\* Control flow shared by the seven routines

\* loop_continues with one iteration too many: range(n + 1)
loop_continues_inclusive(k) == k <= n

\* loop_continues counting up to n instead of testing the range: while k != n
loop_continues_until_equal(k) == k # n

\* for _ in range(n): another iteration follows k completed ones
loop_continues(k) == k < n

\* f raises during the invocations args, made after base earlier ones
fails_in(args, base) == f.failAt > base /\ f.failAt <= base + Len(args)

\* calls_made with the body going on to its remaining invocations after the
\* one that raises
calls_made_swallowed(args, base) == args

\* The invocations of args that are made: an exception raised by f leaves the
\* routine at once, so none follows the one that raises.
calls_made(args, base) ==
    IF fails_in(args, base) THEN SubSeq(args, 1, f.failAt - base) ELSE args

\* One iteration of routine m's loop, with body the *_body of m at (t, y, v)
Step(m, body) ==
    /\ status[m] = "running"
    /\ loop_continues(iter[m])
    /\ calls' = [calls EXCEPT ![m] = @ \o calls_made(body.args, Len(@))]
    /\ IF fails_in(body.args, Len(calls[m]))
       THEN /\ status' = [status EXCEPT ![m] = "raised"]
            /\ error' = [error EXCEPT ![m] = FError(Len(calls'[m]))]
            /\ UNCHANGED <<t, y, v, t_values, y_values, v_values, iter>>
       ELSE /\ y' = [y EXCEPT ![m] = body.y]
            /\ v' = [v EXCEPT ![m] = body.v]
            /\ t' = [t EXCEPT ![m] = t_next(@)]
            /\ t_values' = [t_values EXCEPT ![m] = Append(@, t'[m])]
            /\ y_values' = [y_values EXCEPT ![m] = Append(@, y'[m])]
            /\ v_values' = [v_values EXCEPT ![m] =
                              IF m = "verlet_method_system" THEN Append(@, v'[m]) ELSE @]
            /\ iter' = [iter EXCEPT ![m] = @ + 1]
            /\ UNCHANGED <<status, error>>
    /\ UNCHANGED <<inputs, result>>

Invoked(m) == m \in DOMAIN status

euler_method ==
    /\ Invoked("euler_method")
    /\ Step("euler_method",
            euler_method_body(t["euler_method"], y["euler_method"], v["euler_method"]))

heun_method ==
    /\ Invoked("heun_method")
    /\ Step("heun_method",
            heun_method_body(t["heun_method"], y["heun_method"], v["heun_method"]))

runge_kutta_method ==
    /\ Invoked("runge_kutta_method")
    /\ Step("runge_kutta_method",
            runge_kutta_method_body(t["runge_kutta_method"], y["runge_kutta_method"],
                                    v["runge_kutta_method"]))

midpoint_method ==
    /\ Invoked("midpoint_method")
    /\ Step("midpoint_method",
            midpoint_method_body(t["midpoint_method"], y["midpoint_method"],
                                 v["midpoint_method"]))

verlet_method_system ==
    /\ Invoked("verlet_method_system")
    /\ Step("verlet_method_system",
            verlet_method_system_body(t["verlet_method_system"], y["verlet_method_system"],
                                      v["verlet_method_system"]))

euler_method_system ==
    /\ Invoked("euler_method_system")
    /\ Step("euler_method_system",
            euler_method_system_body(t["euler_method_system"], y["euler_method_system"],
                                     v["euler_method_system"]))

runge_kutta_method_system ==
    /\ Invoked("runge_kutta_method_system")
    /\ Step("runge_kutta_method_system",
            runge_kutta_method_system_body(t["runge_kutta_method_system"],
                                           y["runge_kutta_method_system"],
                                           v["runge_kutta_method_system"]))

\* return t_values, y_values[, v_values]
Return ==
    \E m \in DOMAIN status :
        /\ status[m] = "running"
        /\ ~loop_continues(iter[m])
        /\ status' = [status EXCEPT ![m] = "returned"]
        /\ result' = [result EXCEPT ![m] =
                        IF m = "verlet_method_system"
                        THEN <<t_values[m], y_values[m], v_values[m]>>
                        ELSE <<t_values[m], y_values[m]>>]
        /\ UNCHANGED <<inputs, t, y, v, t_values, y_values, v_values, iter, calls, error>>

----------------------------------------------------------------------------
\* The calls

Y0Set == {<<Num(1)>>, <<Num(-2)>>, <<Num(1), Num(-2)>>}
V0Set(yy) == IF Len(yy) = 1 THEN {<<Num(0)>>, <<Num(3)>>}
             ELSE {<<Num(0), Num(0)>>, <<Num(3), Num(-1)>>}
T0Set == {Num(0), Num(1)}
HSet == {Num(-1), Num(0), Half, Num(1)}
NSet == (-1)..MaxN

\* The routines of ms are called, each with the arguments (f, y0[, v0], t0, h, n)
Call(ms) ==
    /\ f \in FSet(IF "verlet_method_system" \in ms THEN SecondOrderKinds
                  ELSE FirstOrderKinds)
    /\ y0 \in Y0Set
    /\ v0 \in (IF "verlet_method_system" \in ms THEN V0Set(y0)
               ELSE {[j \in DOMAIN y0 |-> Num(0)]})
    /\ t0 \in T0Set
    /\ h \in HSet
    /\ n \in NSet
    /\ t = [m \in ms |-> t0]
    /\ y = [m \in ms |-> y0]
    /\ v = [m \in ms |-> v0]
    /\ t_values = [m \in ms |-> <<t0>>]
    /\ y_values = [m \in ms |-> <<y0>>]
    /\ v_values = [m \in ms |-> IF m = "verlet_method_system" THEN <<v0>> ELSE <<>>]
    /\ iter = [m \in ms |-> 0]
    /\ calls = [m \in ms |-> <<>>]
    /\ status = [m \in ms |-> "running"]
    /\ result = [m \in ms |-> None]
    /\ error = [m \in ms |-> None]

\* One call of one routine
Init == \E m \in Methods : Call({m})

Next ==
    \/ euler_method
    \/ heun_method
    \/ runge_kutta_method
    \/ midpoint_method
    \/ verlet_method_system
    \/ euler_method_system
    \/ runge_kutta_method_system
    \/ Return

Spec == Init /\ [][Next]_vars

\* The two Runge-Kutta routines called side by side with the same arguments
InitRK4 == Call({"runge_kutta_method", "runge_kutta_method_system"})

NextRK4 ==
    \/ runge_kutta_method
    \/ runge_kutta_method_system
    \/ Return

SpecRK4 == InitRK4 /\ [][NextRK4]_vars

----------------------------------------------------------------------------
\* Properties

Verlet == "verlet_method_system"
RK == "runge_kutta_method"
RKS == "runge_kutta_method_system"

\* a - b
RSub(a, b) == RAdd(a, RMul(Num(-1), b))

\* every element of the sequence s is x
AllEqual(s, x) == \A j \in 1..Len(s) : s[j] = x

\* C1: a routine called with n >= 0 returns sequences that all have length
\* n + 1 (times and states, and velocities for Verlet) and start with t0, y0
\* (and v0); with n = 0 they hold the initial condition alone.
C1_LengthAndInitial ==
    \A m \in DOMAIN status :
        (status[m] = "returned" /\ n >= 0) =>
            /\ Len(result[m]) = (IF m = Verlet THEN 3 ELSE 2)
            /\ \A c \in 1..Len(result[m]) : Len(result[m][c]) = n + 1
            /\ result[m][1][1] = t0
            /\ result[m][2][1] = y0
            /\ m = Verlet => result[m][3][1] = v0
            /\ n = 0 => /\ result[m][1] = <<t0>>
                        /\ result[m][2] = <<y0>>
                        /\ m = Verlet => result[m][3] = <<v0>>

C1_Witness ==
    /\ Invoked(Verlet)
    /\ status[Verlet] = "returned"
    /\ n >= 2
    /\ Len(result[Verlet][3]) = n + 1

\* C2: times[i] = t0 + i*h for every index i and consecutive times differ by
\* h, whatever the sign of h and whatever f returns.
C2_TimesAdditive ==
    \A m \in DOMAIN status :
        /\ \A j \in 1..Len(t_values[m]) :
              t_values[m][j] = RAdd(t0, RMul(Num(j - 1), h))
        /\ \A j \in 2..Len(t_values[m]) :
              RSub(t_values[m][j], t_values[m][j - 1]) = h
        /\ status[m] = "returned" => result[m][1] = t_values[m]

C2_Witness ==
    \E m \in DOMAIN status :
        /\ status[m] = "returned"
        /\ h.num < 0
        /\ f.kind = "nan"
        /\ Len(result[m][1]) >= 3

IsZero(g) == g.kind = "const" /\ g.g = Num(0) /\ g.failAt = 0

\* C3 as stated: with f identically zero every routine, Verlet included,
\* keeps states[i] = y0 at every index.
C3_ZeroKeepsY0 ==
    \A m \in DOMAIN status :
        IsZero(f) =>
            /\ AllEqual(y_values[m], y0)
            /\ status[m] = "returned" => AllEqual(result[m][2], y0)

\* C3 amended: with f identically zero the six first-order routines keep
\* states[i] = y0; Verlet keeps the velocity v0 and moves uniformly,
\* positions[i] = y0 + i*h*v0.
C3_ZeroDerivative ==
    \A m \in DOMAIN status :
        IsZero(f) =>
            /\ m # Verlet => AllEqual(y_values[m], y0)
            /\ m = Verlet =>
                  /\ AllEqual(v_values[m], v0)
                  /\ \A j \in 1..Len(y_values[m]) :
                        y_values[m][j] = VAdd(y0, VScale(RMul(Num(j - 1), h), v0))
            /\ status[m] = "returned" =>
                  /\ result[m][2] = y_values[m]
                  /\ Len(result[m][2]) = (IF n < 0 THEN 1 ELSE n + 1)

C3_Witness ==
    /\ Invoked("euler_method")
    /\ IsZero(f)
    /\ status["euler_method"] = "returned"
    /\ h # Num(0)
    /\ n >= 2

\* C4: Verlet with a constant acceleration g gives, at every index i, the
\* position y0 + v0*(i*h) + 0.5*g*(i*h)^2 and the velocity v0 + g*(i*h).
C4_VerletExactKinematics ==
    (Invoked(Verlet) /\ f.kind = "const" /\ f.failAt = 0) =>
        /\ Len(v_values[Verlet]) = Len(y_values[Verlet])
        /\ \A j \in 1..Len(y_values[Verlet]) :
              LET tau == RMul(Num(j - 1), h)
                  gv == [c \in DOMAIN y0 |-> f.g]
              IN /\ y_values[Verlet][j] =
                       VAdd(VAdd(y0, VScale(tau, v0)),
                            VScale(RMul(Half, RMul(tau, tau)), gv))
                 /\ v_values[Verlet][j] = VAdd(v0, VScale(tau, gv))
        /\ status[Verlet] = "returned" =>
              /\ result[Verlet][2] = y_values[Verlet]
              /\ result[Verlet][3] = v_values[Verlet]

C4_Witness ==
    /\ Invoked(Verlet)
    /\ f.kind = "const" /\ f.g = Num(-2) /\ f.failAt = 0
    /\ status[Verlet] = "returned"
    /\ h = Half
    /\ v0 # [c \in DOMAIN y0 |-> Num(0)]
    /\ n >= 2

\* The count of invocations of f per step that C5 states for each routine
ClaimedPerStep(m) ==
    CASE m \in {"euler_method", "euler_method_system"} -> 1
      [] m \in {"heun_method", "midpoint_method"} -> 2
      [] m \in {RK, RKS} -> 4

\* C5: a call with step count n >= 0 invokes f exactly n times (Euler, scalar
\* and system), 2n times (Heun, Midpoint) and 4n times (RK4, scalar and
\* system).
C5_InvocationCount ==
    \A m \in DOMAIN status \ {Verlet} :
        (status[m] = "returned" /\ n >= 0) => Len(calls[m]) = ClaimedPerStep(m) * n

Constant(m) ==
    /\ AllEqual(t_values[m], t0)
    /\ AllEqual(y_values[m], y0)
    /\ AllEqual(v_values[m], v0)
    /\ status[m] = "returned" =>
          /\ result[m][1] = t_values[m]
          /\ result[m][2] = y_values[m]
          /\ m = Verlet => result[m][3] = v_values[m]
          /\ Len(result[m][1]) = (IF n < 0 THEN 1 ELSE n + 1)

\* C6 as stated: with h = 0 every routine returns, without error and for
\* every f, the constant trajectory times[i] = t0, states[i] = y0 (and
\* velocities[i] = v0).
C6_ZeroStepAnyF ==
    \A m \in DOMAIN status :
        h = Num(0) => (status[m] # "raised" /\ Constant(m))

\* C6 amended: with h = 0 and an f that returns finite values and does not
\* raise, every routine returns without error the constant trajectory.
C6_ZeroStep ==
    \A m \in DOMAIN status :
        (h = Num(0) /\ f.kind # "nan" /\ f.failAt = 0) =>
            (status[m] # "raised" /\ Constant(m))

C6_Witness ==
    /\ Invoked("heun_method")
    /\ h = Num(0)
    /\ f.kind = "const" /\ f.g = Num(-2) /\ f.failAt = 0
    /\ status["heun_method"] = "returned"
    /\ Len(result["heun_method"][2]) >= 3

\* the sequences a and b agree on the indices they share
Agree(a, b) == \A j \in 1..Len(a) : j <= Len(b) => a[j] = b[j]

\* C7: run side by side on the same arguments, runge_kutta_method and
\* runge_kutta_method_system invoke f on the same (t, y) in the same order
\* and produce the same times and states at every index.
C7_RK4Equivalent ==
    (Invoked(RK) /\ Invoked(RKS)) =>
        /\ Agree(calls[RK], calls[RKS])
        /\ Agree(t_values[RK], t_values[RKS])
        /\ Agree(y_values[RK], y_values[RKS])
        /\ (status[RK] # "running" /\ status[RKS] # "running") =>
              /\ status[RK] = status[RKS]
              /\ calls[RK] = calls[RKS]
              /\ result[RK] = result[RKS]
              /\ error[RK] = error[RKS]

C7_Witness ==
    /\ Invoked(RK) /\ Invoked(RKS)
    /\ status[RK] = "returned" /\ status[RKS] = "returned"
    /\ f.kind = "y"
    /\ h = Half
    /\ Len(y0) = 2
    /\ Len(result[RKS][2]) >= 3

\* C8: when an invocation of f raises, the call ends with that very
\* exception: f is not invoked again, and nothing is returned.
C8_FailurePropagates ==
    \A m \in DOMAIN status :
        /\ (f.failAt > 0 /\ Len(calls[m]) >= f.failAt) =>
              /\ status[m] = "raised"
              /\ Len(calls[m]) = f.failAt
              /\ error[m] = FError(f.failAt)
              /\ result[m] = None
        /\ status[m] = "raised" => (f.failAt > 0 /\ Len(calls[m]) = f.failAt)
        /\ status[m] # "raised" => error[m] = None

C8_Witness ==
    \E m \in DOMAIN status :
        /\ status[m] = "raised"
        /\ iter[m] >= 1
        /\ Len(y_values[m]) >= 2
        /\ result[m] = None

\* C9: every Verlet transition from (t, y, v) computes y_next from f(t, y, v),
\* then a_next = f(t + h, y_next, v) with the old velocity, then
\* v_next = v + 0.5*h*(f(t, y, v) + a_next), and only then appends
\* (t + h, y_next, v_next).
C9_VerletOrder ==
    Invoked(Verlet) =>
        \A j \in 1..(Len(y_values[Verlet]) - 1) :
            LET tj == t_values[Verlet][j]
                yj == y_values[Verlet][j]
                vj == v_values[Verlet][j]
                yn == y_values[Verlet][j + 1]
                vn == v_values[Verlet][j + 1]
                c == calls[Verlet]
                b == 3 * (j - 1)
                a == Apply(<<tj, yj, vj>>)
                an == Apply(<<RAdd(tj, h), yn, vj>>)
            IN /\ Len(c) >= b + 3
               /\ c[b + 1] = <<tj, yj, vj>>
               /\ c[b + 2] = <<RAdd(tj, h), yn, vj>>
               /\ c[b + 3] = <<tj, yj, vj>>
               /\ yn = VAdd(VAdd(yj, VScale(h, vj)), VScale(RMul(Half, RMul(h, h)), a))
               /\ vn = VAdd(vj, VScale(RMul(Half, h), VAdd(a, an)))
               /\ t_values[Verlet][j + 1] = RAdd(tj, h)

C9_Witness ==
    /\ Invoked(Verlet)
    /\ status[Verlet] = "returned"
    /\ f.kind = "neg_v"
    /\ h = Half
    /\ v0 # [c \in DOMAIN y0 |-> Num(0)]
    /\ Len(result[Verlet][3]) >= 3

\* C10: with n < 0 a routine makes no iteration: it raises nothing, never
\* invokes f and returns the one-element trajectory of n = 0, of length 1
\* and not n + 1.
C10_NegativeN ==
    \A m \in DOMAIN status :
        n < 0 =>
            /\ calls[m] = <<>>
            /\ status[m] # "raised"
            /\ iter[m] = 0
            /\ status[m] = "returned" =>
                  result[m] = (IF m = Verlet THEN <<(<<t0>>), (<<y0>>), (<<v0>>)>>
                               ELSE <<(<<t0>>), (<<y0>>)>>)

C10_Witness ==
    \E m \in DOMAIN status :
        /\ n < 0
        /\ f.failAt = 1
        /\ status[m] = "returned"
        /\ Len(result[m][1]) = 1

====
